---- MODULE Spec2Model ----
(***************************************************************************)
(* A model of vix.py: the polling loop run(), its module state (previous,  *)
(* history), the history file, and the pure functions the loop calls.      *)
(*                                                                         *)
(* Units.  vx1, vx2 and the spread are counted in eighths of a point, so   *)
(* -0.5 is -4 and -0.25 is -2.  vx3 = vx2 * 1.01 is kept in hundredths of  *)
(* an eighth (field vx3c = vx2 * 101) so that no fraction is lost.  A      *)
(* percent change is the exact fraction [num, den] with den > 0.  Time is  *)
(* counted in seconds.                                                     *)
(***************************************************************************)
EXTENDS Integers, Sequences, FiniteSets, TLC

-----------------------------------------------------------------------------
(* CONFIG (lines 14-18) *)

CHECK_INTERVAL == 600
EARLY_WARNING_THRESHOLD == -2
SMOOTHING_DAYS == 3
TREND_LENGTH == 5
WEEKLY_LENGTH == 7

\* 24*3600, the dashboard gate of line 319, and timedelta(days=1) of line 238
DAY == 24 * 3600

\* Python's None in a numeric slot; "None" in a regime slot
None == -1000000
NoRegime == "None"

-----------------------------------------------------------------------------
(* Bounds of the model *)

\* ticks of the loop that are explored
MaxTicks == 2
\* the longest list stored under a key of the history file
MaxFileLen == 8
\* the duration of a fetch that returns at once
QuickIO == 1

-----------------------------------------------------------------------------
(* collections.deque(maxlen=n) *)

\* a plain list in place of the deque: append never drops an element
DequeAppend_Unbounded(q, x, maxlen) == Append(q, x)

\* deque.append: a full deque drops its leftmost element first
DequeAppend(q, x, maxlen) ==
    IF Len(q) = maxlen THEN Append(Tail(q), x) ELSE Append(q, x)

\* a deque built from the first maxlen elements of the iterable
DequeFrom_Head(list, maxlen) ==
    IF Len(list) <= maxlen THEN list ELSE SubSeq(list, 1, maxlen)

\* deque(iterable, maxlen): only the last maxlen elements are kept
DequeFrom(list, maxlen) ==
    IF Len(list) <= maxlen THEN list
    ELSE SubSeq(list, Len(list) - maxlen + 1, Len(list))

-----------------------------------------------------------------------------
(* STATE MEMORY (lines 53-71) *)

StrengthKeys == {"vix_strength", "vvix_strength", "spread_strength", "spx_strength"}
TrendKeys == {"vix_trend", "vvix_trend", "spread_trend", "spx_trend"}
WeekKeys == {"vix_week", "vvix_week", "spread_week", "spx_week", "regime_week", "date_week"}
Keys == StrengthKeys \cup TrendKeys \cup WeekKeys

\* the maxlen each deque of history is built with
MaxLenOf(k) ==
    IF k \in StrengthKeys THEN SMOOTHING_DAYS
    ELSE IF k \in TrendKeys THEN TREND_LENGTH
    ELSE WEEKLY_LENGTH

InitPrevious ==
    [vix |-> None, vvix |-> None, spx |-> None, spread |-> None, regime |-> NoRegime]

InitHistory == [k \in Keys |-> << >>]

-----------------------------------------------------------------------------
(* Exact fractions, for the percent changes and the strengths *)

Rat(n, d) == IF d < 0 THEN [num |-> 0 - n, den |-> 0 - d] ELSE [num |-> n, den |-> d]
Zero == [num |-> 0, den |-> 1]
RatNeg(r) == [num |-> 0 - r.num, den |-> r.den]
RatPos(r) == r.num > 0
RatIsNeg(r) == r.num < 0
Abs(n) == IF n < 0 THEN 0 - n ELSE n
\* abs(r) > k
RatAbsGt(r, k) == Abs(r.num) > k * r.den

\* int(a / b) for b > 0: Python's int() of a float truncates toward zero
TruncDiv(a, b) == IF a >= 0 THEN a \div b ELSE 0 - ((0 - a) \div b)

Max2(a, b) == IF a >= b THEN a ELSE b
Min2(a, b) == IF a <= b THEN a ELSE b

-----------------------------------------------------------------------------
(* DATA FETCH (lines 34-47) *)

\* The quotes the endpoint may answer with.  get_price returns the JSON
\* number as it is: nothing checks its sign, so the pairs hold one negative
\* quote for UVXY (vx2), the only way to fake_spike's last conjunct.
\* (vix, vvix, spx): each of the three rises and falls between two triples
IndexQuotes == {<<19, 90, 50>>, <<20, 100, 50>>, <<20, 90, 51>>, <<19, 100, 51>>}

\* (vx1, vx2): spreads of -1.0, -0.5, -0.375, -0.25, 0 and +0.25, and the
\* negative quote
VxPairs ==
    {<<80, 88>>, <<84, 88>>, <<85, 88>>, <<86, 88>>, <<88, 88>>, <<90, 88>>, <<80, -8>>}

\* nothing checks a quote for zero either: a vix of 0, and a vvix of 0
ZeroQuotes == {<<0, 90, 50>>, <<19, 0, 50>>}
ZeroQuotePair == <<84, 88>>

\* fetch_market_data with a vx3 below vx2: vx3 = vx2 * 0.99
fetch_market_data_Below(vix, vvix, spx, vx1, vx2) ==
    [vix |-> vix, vvix |-> vvix, spx |-> spx, vx1 |-> vx1, vx2 |-> vx2,
     vx3c |-> vx2 * 99]

\* fetch_market_data: five quotes, and vx3 = vx2 * 1.01 (kept as vx2 * 101)
fetch_market_data(vix, vvix, spx, vx1, vx2) ==
    [vix |-> vix, vvix |-> vvix, spx |-> spx, vx1 |-> vx1, vx2 |-> vx2,
     vx3c |-> vx2 * 101]

Snapshots ==
    { fetch_market_data(q[1], q[2], q[3], p[1], p[2]) :
        q \in IndexQuotes, p \in VxPairs }
    \cup { fetch_market_data(q[1], q[2], q[3], ZeroQuotePair[1], ZeroQuotePair[2]) :
             q \in ZeroQuotes }

NoData == [vix |-> None, vvix |-> None, spx |-> None, vx1 |-> None, vx2 |-> None,
           vx3c |-> None]

-----------------------------------------------------------------------------
(* CALCULATIONS (lines 97-139) *)

\* "if x:" on a number or None
Truthy(x) == x # None /\ x # 0

\* (cur - prev) / prev * 100
PercentChange(cur, prev) == Rat((cur - prev) * 100, prev)

\* compute_changes raises ZeroDivisionError (TypeError for None) when the
\* vix branch is taken and another previous value cannot be divided by
compute_changes_raises(prev) ==
    Truthy(prev.vix) /\ (~Truthy(prev.vvix) \/ ~Truthy(prev.spx))

compute_changes(data, prev) ==
    LET has == Truthy(prev.vix)
        spread == data.vx1 - data.vx2
    IN  [vix_change  |-> IF has THEN PercentChange(data.vix, prev.vix) ELSE Zero,
         vvix_change |-> IF has THEN PercentChange(data.vvix, prev.vvix) ELSE Zero,
         spx_change  |-> IF has THEN PercentChange(data.spx, prev.spx) ELSE Zero,
         spread |-> spread,
         spread_trending_down |-> (prev.spread # None /\ spread < prev.spread)]

NoChanges ==
    [vix_change |-> Zero, vvix_change |-> Zero, spx_change |-> Zero,
     spread |-> None, spread_trending_down |-> FALSE]

fake_spike(data, changes) ==
    /\ RatPos(changes.vix_change)
    /\ RatPos(changes.vvix_change)
    /\ data.vx1 > data.vx2
    /\ data.vx2 * 100 > data.vx3c

\* the score with its first test written abs(vix_change) >= 3
probability_score_Ge3(data, changes) ==
      (IF ~(Abs(changes.vix_change.num) < 3 * changes.vix_change.den) THEN 20 ELSE 0)
    + (IF data.vx1 < data.vx2 THEN 20 ELSE 0)
    + (IF changes.spread < -4 THEN 15 ELSE 0)
    + (IF changes.spread_trending_down THEN 10 ELSE 0)
    + (IF RatIsNeg(changes.vvix_change) THEN 15 ELSE 0)
    + (IF RatPos(changes.spx_change) /\ RatIsNeg(changes.vix_change) THEN 10 ELSE 0)
    + (IF data.vx1 < data.vx2 /\ data.vx2 * 100 < data.vx3c THEN 10 ELSE 0)

probability_score(data, changes) ==
      (IF RatAbsGt(changes.vix_change, 3) THEN 20 ELSE 0)
    + (IF data.vx1 < data.vx2 THEN 20 ELSE 0)
    + (IF changes.spread < -4 THEN 15 ELSE 0)
    + (IF changes.spread_trending_down THEN 10 ELSE 0)
    + (IF RatIsNeg(changes.vvix_change) THEN 15 ELSE 0)
    + (IF RatPos(changes.spx_change) /\ RatIsNeg(changes.vix_change) THEN 10 ELSE 0)
    + (IF data.vx1 < data.vx2 /\ data.vx2 * 100 < data.vx3c THEN 10 ELSE 0)

\* the bands with their upper ends closed (score <= 30, ...)
classify_UpperClosed(score) ==
    IF score <= 30 THEN "PANIC"
    ELSE IF score <= 50 THEN "TRANSITION"
    ELSE IF score <= 70 THEN "EARLY_PHASE_1"
    ELSE IF score <= 85 THEN "CONFIRMED_PHASE_1"
    ELSE "LATE_PHASE_1"

classify(score) ==
    IF score < 30 THEN "PANIC"
    ELSE IF score < 50 THEN "TRANSITION"
    ELSE IF score < 70 THEN "EARLY_PHASE_1"
    ELSE IF score < 85 THEN "CONFIRMED_PHASE_1"
    ELSE "LATE_PHASE_1"

should_alert(new, old) ==
    new # old /\ new \in {"TRANSITION", "EARLY_PHASE_1", "CONFIRMED_PHASE_1"}

\* the band with both ends open (threshold > spread > -0.5)
should_early_warning_alert_Open(changes) ==
    EARLY_WARNING_THRESHOLD > changes.spread /\ changes.spread > -4

should_early_warning_alert(changes) ==
    EARLY_WARNING_THRESHOLD >= changes.spread /\ changes.spread > -4

-----------------------------------------------------------------------------
(* STRENGTH (lines 177-190) *)

\* max(min(int(value*5+50),100),0), value the fraction r
\* signal_strength with round-half-up in the place of int()
signal_strength_Rounds(r, ideal_positive) ==
    LET v == IF ideal_positive THEN r ELSE RatNeg(r)
    IN  Max2(Min2((2 * (5 * v.num + 50 * v.den) + v.den) \div (2 * v.den), 100), 0)

signal_strength(r, ideal_positive) ==
    LET v == IF ideal_positive THEN r ELSE RatNeg(r)
    IN  Max2(Min2(TruncDiv(5 * v.num + 50 * v.den, v.den), 100), 0)

\* the four strengths of lines 260-263
vix_str(changes) == signal_strength(RatNeg(changes.vix_change), TRUE)
vvix_str(changes) == signal_strength(RatNeg(changes.vvix_change), TRUE)
spread_str(changes) == signal_strength(Rat(0 - changes.spread, 8), TRUE)
spx_str(changes) == signal_strength(changes.spx_change, TRUE)

-----------------------------------------------------------------------------
(* JSON PERSISTENCE (lines 77-91) *)

\* The history file: absent, not readable (open() raises PermissionError),
\* unparsable, holding a key history lacks, or a mapping from the keys to
\* lists
FileElem(k, i) ==
    IF k = "regime_week" THEN "PANIC"
    ELSE IF k = "date_week" THEN "01-01"
    ELSE 10 * i

FileOfLength(n) == [kind |-> "ok", data |-> [k \in Keys |-> [i \in 1..n |-> FileElem(k, i)]]]

FileLens == {1, MaxFileLen}

LoadFailures == {"absent", "unreadable", "corrupt", "unknown_key"}

InitialFiles ==
    { [kind |-> c, data |-> InitHistory] : c \in LoadFailures }
    \cup { FileOfLength(n) : n \in FileLens }

\* load_history catches FileNotFoundError only: open()'s other errors,
\* json.load's error and the KeyError of history[k] leave run()
load_history_raises(file) == file.kind \in {"unreadable", "corrupt", "unknown_key"}

\* history[k] = deque(data[k], maxlen=history[k].maxlen) for every k in data
load_history(file, h) ==
    IF file.kind = "ok"
    THEN [k \in Keys |-> DequeFrom(file.data[k], MaxLenOf(k))]
    ELSE h

\* out = {k: list(v) for k,v in history.items()}; json.dump(out, f)
save_history(h) == [kind |-> "ok", data |-> h]

\* open(HISTORY_FILE, "w") has emptied the file when json.dump fails
TruncatedFile == [kind |-> "corrupt", data |-> InitHistory]

-----------------------------------------------------------------------------
(* The state *)

VARIABLES
    pc,            \* where run() stands
    previous,      \* the module's previous dict
    history,       \* the module's history dict of deques
    disk,          \* the history file
    since_weekly,  \* now - last_weekly_alert, counted up to DAY + 1
    since_sent,    \* now - the time the last dashboard was delivered (at the
                   \* start: now - 1 day), counted up to DAY + 1
    ticks,         \* iterations of the loop begun
    data,          \* the tick's data, changes, score and regime
    changes,
    score,
    regime,
    outbox,        \* the calls of send_telegram in this tick, in order
    steps,         \* what this tick has executed so far
    stable_alert,  \* the regime of the last phase alert delivered, while
                   \* every regime classified since is that regime
    fn_call,       \* a single call of a pure function, and what it returned
    fn_ret

vars == <<pc, previous, history, disk, since_weekly, since_sent, ticks, data, changes, score,
          regime, outbox, steps, stable_alert, fn_call, fn_ret>>

tick_locals == <<data, changes, score, regime>>

NoStrengths == [vix |-> None, vvix |-> None, spread |-> None, spx |-> None]
NoCall == [fn |-> "none", score |-> 0, data |-> NoData, changes |-> NoChanges]
NoRet == [score |-> 0, regime |-> NoRegime, strengths |-> NoStrengths]

Msg(kind, r, ok) == [kind |-> kind, regime |-> r, ok |-> ok]

Sat(t) == Min2(t, DAY + 1)

\* requests.get has no timeout: a fetch returns at once or stalls
FetchDelays == {QuickIO, DAY}

Init ==
    /\ pc = "load"
    /\ previous = InitPrevious
    /\ history = InitHistory
    /\ disk \in InitialFiles
    /\ since_weekly = 0
    /\ since_sent = 0
    /\ ticks = 0
    /\ data = NoData
    /\ changes = NoChanges
    /\ score = None
    /\ regime = NoRegime
    /\ outbox = << >>
    /\ steps = {}
    /\ stable_alert = NoRegime
    /\ fn_call = NoCall
    /\ fn_ret = NoRet

-----------------------------------------------------------------------------
(* run() before the loop (lines 235-238) *)

LoadHistory ==
    /\ pc = "load"
    /\ IF load_history_raises(disk)
       THEN pc' = "crashed" /\ UNCHANGED history
       ELSE pc' = "start" /\ history' = load_history(disk, history)
    /\ UNCHANGED <<previous, disk, since_weekly, since_sent, ticks, tick_locals, outbox, steps,
                   stable_alert, fn_call, fn_ret>>

\* the start message is sent outside the try; then
\* last_weekly_alert = now - 1 day
StartMessage ==
    /\ pc = "start"
    /\ \E ok \in BOOLEAN :
         /\ outbox' = Append(outbox, Msg("start", NoRegime, ok))
         /\ pc' = IF ok THEN "fetch" ELSE "crashed"
         /\ since_weekly' = IF ok THEN DAY ELSE since_weekly
         /\ since_sent' = IF ok THEN DAY ELSE since_sent
    /\ UNCHANGED <<previous, history, disk, ticks, tick_locals, steps, stable_alert,
                   fn_call, fn_ret>>

-----------------------------------------------------------------------------
(* MAIN LOOP (lines 240-332) *)

\* Lines 242-251: the fetch, compute_changes, the fake-spike check, the
\* score and the regime.  A failed fetch or compute_changes goes to the
\* except clause.
Fetch ==
    /\ pc = "fetch"
    /\ ticks < MaxTicks
    /\ ticks' = ticks + 1
    /\ outbox' = << >>
    /\ \E d \in FetchDelays : /\ since_weekly' = Sat(since_weekly + d)
                            /\ since_sent' = Sat(since_sent + d)
    /\ \/ /\ pc' = "except"
          /\ steps' = {}
          /\ UNCHANGED <<tick_locals, stable_alert>>
       \/ \E snap \in Snapshots :
            /\ data' = snap
            /\ IF compute_changes_raises(previous)
               THEN /\ pc' = "except"
                    /\ steps' = {}
                    /\ UNCHANGED <<changes, score, regime, stable_alert>>
               ELSE LET ch == compute_changes(snap, previous)
                        sc == probability_score(snap, ch)
                    IN  /\ changes' = ch
                        /\ IF fake_spike(snap, ch)
                           THEN /\ pc' = "spike"
                                /\ steps' = {}
                                /\ UNCHANGED <<score, regime, stable_alert>>
                           ELSE /\ pc' = "early"
                                /\ steps' = {"scored"}
                                /\ score' = sc
                                /\ regime' = classify(sc)
                                /\ stable_alert' =
                                     IF classify(sc) = stable_alert
                                     THEN stable_alert ELSE NoRegime
    /\ UNCHANGED <<previous, history, disk, fn_call, fn_ret>>

\* Lines 245-248: the spike alert, the sleep and the continue
Spike ==
    /\ pc = "spike"
    /\ \E ok \in BOOLEAN :
         /\ outbox' = Append(outbox, Msg("spike", NoRegime, ok))
         /\ pc' = IF ok THEN "sleep" ELSE "except"
    /\ UNCHANGED <<previous, history, disk, since_weekly, since_sent, ticks, tick_locals, steps,
                   stable_alert, fn_call, fn_ret>>

\* Lines 254-255: the early warning
Early ==
    /\ pc = "early"
    /\ IF should_early_warning_alert(changes)
       THEN \E ok \in BOOLEAN :
              /\ outbox' = Append(outbox, Msg("early", NoRegime, ok))
              /\ pc' = IF ok THEN "alert" ELSE "except"
       ELSE /\ pc' = "alert"
            /\ UNCHANGED outbox
    /\ UNCHANGED <<previous, history, disk, since_weekly, since_sent, ticks, tick_locals, steps,
                   stable_alert, fn_call, fn_ret>>

\* the date strftime("%m-%d") gives: the model keeps one day
Today == "01-01"

\* the appends without line 284, history["date_week"].append(...)
AppendStrengths_NoDate(h, ch, r) ==
    LET val(k) ==
          IF k \in {"vix_strength", "vix_trend", "vix_week"} THEN vix_str(ch)
          ELSE IF k \in {"vvix_strength", "vvix_trend", "vvix_week"} THEN vvix_str(ch)
          ELSE IF k \in {"spread_strength", "spread_trend", "spread_week"} THEN spread_str(ch)
          ELSE IF k \in {"spx_strength", "spx_trend", "spx_week"} THEN spx_str(ch)
          ELSE r
    IN  [k \in Keys |-> IF k = "date_week" THEN h[k]
                         ELSE DequeAppend(h[k], val(k), MaxLenOf(k))]

\* Lines 266-284: the appends to the smoothing, trend and weekly deques
AppendStrengths(h, ch, r) ==
    LET val(k) ==
          IF k \in {"vix_strength", "vix_trend", "vix_week"} THEN vix_str(ch)
          ELSE IF k \in {"vvix_strength", "vvix_trend", "vvix_week"} THEN vvix_str(ch)
          ELSE IF k \in {"spread_strength", "spread_trend", "spread_week"} THEN spread_str(ch)
          ELSE IF k \in {"spx_strength", "spx_trend", "spx_week"} THEN spx_str(ch)
          ELSE IF k = "regime_week" THEN r
          ELSE Today
    IN  [k \in Keys |-> DequeAppend(h[k], val(k), MaxLenOf(k))]

\* Lines 258-287: the phase-alert decision, the appends and save_history.
\* The save succeeds, or open() fails and the file stays, or json.dump
\* fails on the file open() has emptied.
Alert ==
    /\ pc = "alert"
    /\ IF should_alert(regime, previous.regime)
       THEN /\ history' = AppendStrengths(history, changes, regime)
            /\ \/ /\ disk' = save_history(history')
                  /\ steps' = steps \cup {"appended", "saved"}
                  /\ pc' = "heatmap"
               \/ /\ disk' \in {disk, TruncatedFile}
                  /\ steps' = steps \cup {"appended"}
                  /\ pc' = "except"
       ELSE /\ pc' = "weekly"
            /\ UNCHANGED <<history, disk, steps>>
    /\ UNCHANGED <<previous, since_weekly, since_sent, ticks, tick_locals, outbox, stable_alert,
                   fn_call, fn_ret>>

\* Lines 289-315: the phase alert (the heatmap message)
Heatmap ==
    /\ pc = "heatmap"
    /\ \E ok \in BOOLEAN :
         /\ outbox' = Append(outbox, Msg("phase", regime, ok))
         /\ pc' = IF ok THEN "weekly" ELSE "except"
         /\ stable_alert' = IF ok THEN regime ELSE stable_alert
    /\ UNCHANGED <<previous, history, disk, since_weekly, since_sent, ticks, tick_locals, steps,
                   fn_call, fn_ret>>

\* send_weekly_dashboard returns early with fewer than 2 readings
dashboard_sends(h) == Len(h["vix_week"]) >= 2

\* its averages divide by each list's length and its loop indexes every
\* weekly list by the positions of vix_week
dashboard_raises(h) ==
    dashboard_sends(h) /\ \E k \in WeekKeys : Len(h[k]) < Len(h["vix_week"])

\* Lines 323-327
UpdatePrevious(d, ch, r) ==
    [vix |-> d.vix, vvix |-> d.vvix, spx |-> d.spx, spread |-> ch.spread, regime |-> r]

\* Lines 318-327: the dashboard once the gate is open, last_weekly_alert,
\* and the update of previous that ends a tick nothing has aborted
Weekly ==
    /\ pc = "weekly"
    /\ \/ /\ since_weekly > DAY
          /\ dashboard_raises(history)
          /\ pc' = "except"
          /\ UNCHANGED <<previous, since_weekly, since_sent, outbox, steps>>
       \/ /\ since_weekly > DAY
          /\ dashboard_sends(history)
          /\ ~dashboard_raises(history)
          /\ \E ok \in BOOLEAN :
               /\ outbox' = Append(outbox, Msg("dashboard", NoRegime, ok))
               /\ IF ok
                  THEN /\ since_weekly' = 0
                       /\ since_sent' = 0
                       /\ previous' = UpdatePrevious(data, changes, regime)
                       /\ steps' = steps \cup {"updated"}
                       /\ pc' = "sleep"
                  ELSE /\ pc' = "except"
                       /\ UNCHANGED <<previous, since_weekly, since_sent, steps>>
       \/ /\ since_weekly > DAY
          /\ ~dashboard_sends(history)
          /\ since_weekly' = 0
          /\ UNCHANGED since_sent
          /\ previous' = UpdatePrevious(data, changes, regime)
          /\ steps' = steps \cup {"updated"}
          /\ pc' = "sleep"
          /\ UNCHANGED outbox
       \/ /\ since_weekly <= DAY
          /\ previous' = UpdatePrevious(data, changes, regime)
          /\ steps' = steps \cup {"updated"}
          /\ pc' = "sleep"
          /\ UNCHANGED <<since_weekly, since_sent, outbox>>
    /\ UNCHANGED <<history, disk, ticks, tick_locals, stable_alert, fn_call, fn_ret>>

\* Lines 329-330: the except clause reports through send_telegram, which
\* is not guarded: when it raises, run() ends
Except ==
    /\ pc = "except"
    /\ \E ok \in BOOLEAN :
         /\ outbox' = Append(outbox, Msg("error", NoRegime, ok))
         /\ pc' = IF ok THEN "sleep" ELSE "crashed"
    /\ UNCHANGED <<previous, history, disk, since_weekly, since_sent, ticks, tick_locals, steps,
                   stable_alert, fn_call, fn_ret>>

\* time.sleep(CHECK_INTERVAL), line 332 (line 247 on the spike path); the
\* next iteration starts with fresh locals
Sleep ==
    /\ pc = "sleep"
    /\ since_weekly' = Sat(since_weekly + CHECK_INTERVAL)
    /\ since_sent' = Sat(since_sent + CHECK_INTERVAL)
    /\ pc' = "fetch"
    /\ data' = NoData
    /\ changes' = NoChanges
    /\ score' = None
    /\ regime' = NoRegime
    /\ outbox' = << >>
    /\ steps' = {}
    /\ UNCHANGED <<previous, history, disk, ticks, stable_alert, fn_call, fn_ret>>

Next ==
    \/ LoadHistory
    \/ StartMessage
    \/ Fetch
    \/ Spike
    \/ Early
    \/ Alert
    \/ Heatmap
    \/ Weekly
    \/ Except
    \/ Sleep

Spec == Init /\ [][Next]_vars

-----------------------------------------------------------------------------
(* Single calls of the pure functions, on inputs of their own *)

\* the largest score handed to classify
MaxScoreInput == 100

ScoreInputs == 0..MaxScoreInput

\* changes around the bounds the score tests: 3 percent, and zero
VixChangeSamples == {Rat(-5, 1), Rat(-3, 1), Zero, Rat(3, 1), Rat(301, 100)}
ChangeSamples == {Rat(-1, 1), Zero, Rat(1, 1)}
SpreadSamples == {-5, -4, -3}
ScoreData ==
    { [vix |-> 20, vvix |-> 100, spx |-> 50, vx1 |-> p[1], vx2 |-> p[2],
       vx3c |-> p[2] * c] :
        p \in {<<80, 88>>, <<88, 88>>, <<88, 80>>}, c \in {99, 100, 101} }
ScoreChanges ==
    [vix_change : VixChangeSamples, vvix_change : ChangeSamples,
     spx_change : ChangeSamples, spread : SpreadSamples,
     spread_trending_down : BOOLEAN]

PureInit ==
    /\ pc = "pure"
    /\ previous = InitPrevious
    /\ history = InitHistory
    /\ disk = [kind |-> "absent", data |-> InitHistory]
    /\ since_weekly = 0
    /\ since_sent = 0
    /\ ticks = 0
    /\ data = NoData
    /\ changes = NoChanges
    /\ score = None
    /\ regime = NoRegime
    /\ outbox = << >>
    /\ steps = {}
    /\ stable_alert = NoRegime
    /\ fn_call = NoCall
    /\ fn_ret = NoRet

run_state == <<pc, previous, history, disk, since_weekly, since_sent, ticks, data, changes, score,
               regime, outbox, steps, stable_alert>>

CallClassify ==
    /\ fn_call = NoCall
    /\ \E s \in ScoreInputs :
         /\ fn_call' = [NoCall EXCEPT !.fn = "classify", !.score = s]
         /\ fn_ret' = [NoRet EXCEPT !.regime = classify(s)]
    /\ UNCHANGED run_state

CallProbabilityScore ==
    /\ fn_call = NoCall
    /\ \E d \in ScoreData, c \in ScoreChanges :
         /\ fn_call' = [NoCall EXCEPT !.fn = "probability_score", !.data = d, !.changes = c]
         /\ fn_ret' = [NoRet EXCEPT !.score = probability_score(d, c)]
    /\ UNCHANGED run_state

\* the largest change, and spread, handed to the strengths, in eighths
MaxChangeEighths == 96

ChangeEighths == (0 - MaxChangeEighths)..MaxChangeEighths

\* every eighth for the vix change; the other three metrics get values
\* whose linear part is whole, fractional, and beyond both clamps
StrengthChanges ==
    { [vix_change |-> Rat(a, 8), vvix_change |-> Rat(b, 19), spx_change |-> Rat(c, 19),
       spread |-> e, spread_trending_down |-> FALSE] :
        a \in ChangeEighths, b \in {-250, 0, 100}, c \in {-100, 0, 250},
        e \in {-88, -3, 88} }

\* lines 260-263 of run()
CallStrengths ==
    /\ fn_call = NoCall
    /\ \E c \in StrengthChanges :
         /\ fn_call' = [NoCall EXCEPT !.fn = "strengths", !.changes = c]
         /\ fn_ret' = [NoRet EXCEPT !.strengths =
                         [vix |-> vix_str(c), vvix |-> vvix_str(c),
                          spread |-> spread_str(c), spx |-> spx_str(c)]]
    /\ UNCHANGED run_state

PureNext ==
    \/ CallClassify
    \/ CallProbabilityScore
    \/ CallStrengths

SpecPure == PureInit /\ [][PureNext]_vars

-----------------------------------------------------------------------------
(* What the claims speak of *)

Important == {"TRANSITION", "EARLY_PHASE_1", "CONFIRMED_PHASE_1"}
Regimes == <<"PANIC", "TRANSITION", "EARLY_PHASE_1", "CONFIRMED_PHASE_1", "LATE_PHASE_1">>

\* send_telegram was called with a message of this kind in this tick
Fired(kind) == \E i \in 1..Len(outbox) : outbox[i].kind = kind
\* a call of send_telegram of this tick raised
SomeSendFailed == \E i \in 1..Len(outbox) : ~outbox[i].ok
Scored == "scored" \in steps
\* the tick in progress took the fake-spike branch
SpikeTick == data # NoData /\ changes # NoChanges /\ fake_spike(data, changes)

-----------------------------------------------------------------------------
\* C1: on every scored tick a phase alert fires iff the new regime differs
\* from previous.regime and is TRANSITION, EARLY_PHASE_1 or
\* CONFIRMED_PHASE_1.  Read where the tick's alerts are settled and previous
\* still holds the old regime: before the dashboard step, and in the except
\* clause.
C1_PhaseAlertIff ==
    (Scored /\ pc \in {"weekly", "except"})
        => (Fired("phase") <=> (regime # previous.regime /\ regime \in Important))

\* C2: once a phase alert for regime R is delivered, no further phase alert
\* for R is delivered until a later tick has classified another regime.
C2_NoRepeatAlert ==
    [][(pc = "heatmap" /\ pc' = "weekly") => stable_alert # regime]_vars

\* C3: on a fake-spike tick the spike alert is the only message sent, no
\* score or regime is computed, no early-warning or phase alert is sent, and
\* previous and every buffer stay as they were.
C3_SpikeShortCircuits ==
    /\ [](SpikeTick =>
            /\ score = None /\ regime = NoRegime
            /\ ~Fired("early") /\ ~Fired("phase") /\ ~Fired("dashboard")
            /\ pc # "spike" => (Len(outbox) = 1 /\ outbox[1].kind = "spike"))
    /\ [][SpikeTick => (previous' = previous /\ history' = history)]_vars

\* C4: every buffer holds at most its capacity, after any append and after
\* load_history whatever the stored lengths; an append to a full buffer
\* drops the oldest entry and keeps the order of the rest.
C4_BuffersBounded ==
    /\ [](\A k \in Keys : Len(history[k]) <= MaxLenOf(k))
    /\ [][\A k \in Keys :
            (pc # "load" /\ history'[k] # history[k]) =>
               LET old == history[k]
                   new == history'[k]
                   kept == IF Len(old) = MaxLenOf(k) THEN Tail(old) ELSE old
               IN  /\ Len(new) = Len(kept) + 1
                   /\ SubSeq(new, 1, Len(kept)) = kept]_vars

\* a full weekly, trend and smoothing buffer each lost its oldest entry to
\* this tick's append: the file held 10, 20, ..., 80 under every key
C4_Witness ==
    /\ "appended" \in steps
    /\ \A k \in Keys : Len(history[k]) = MaxLenOf(k)
    /\ history["vix_week"][1] = 30
    /\ history["vix_trend"][1] = 50
    /\ history["vix_strength"][1] = 70

\* C5: previous is updated at the end of the tick that appended to the
\* buffers: when a tick is over (the loop sleeps), the buffers never hold
\* this tick's strengths while previous is still the one from before it.
C5_NoPartialUpdate ==
    (pc = "sleep" /\ "appended" \in steps) => "updated" \in steps

\* C6: no failure raised during a tick ends run().
C6_NoFatalErrorPath == pc = "crashed" => ticks = 0

\* C7: a failed send never reaches the except clause, and the tick it
\* happened in still runs to its update of previous.
C7_SendFailureSwallowed ==
    /\ pc = "except" => ~SomeSendFailed
    /\ (pc \in {"sleep", "crashed"} /\ Scored /\ SomeSendFailed) => "updated" \in steps

\* C8: on a scored tick the early warning is sent iff -0.5 < spread <= -0.25
\* (-4 < spread <= -2 in eighths), whatever previous holds and whether or not
\* a phase alert follows.
C8_EarlyWarningIff ==
    (Scored /\ pc # "early")
        => (Fired("early") <=> (-4 < data.vx1 - data.vx2 /\ data.vx1 - data.vx2 <= -2))

\* the second of two consecutive scored ticks with the spread at -0.25, the
\* early warning and a phase alert both sent in it
C8_Witness ==
    /\ pc = "weekly"
    /\ ticks = 2
    /\ previous.spread = -2
    /\ data.vx1 - data.vx2 = -2
    /\ Fired("early")
    /\ Fired("phase")

\* the early warning is not sent at a spread of exactly -0.5
C8_WitnessLowEdge ==
    Scored /\ pc = "weekly" /\ data.vx1 - data.vx2 = -4 /\ ~Fired("early")

-----------------------------------------------------------------------------
\* the table of section 4.3, condition by condition
ScoreWeights == <<20, 20, 15, 10, 15, 10, 10>>
ScoreCondition(i, d, c) ==
    CASE i = 1 -> Abs(c.vix_change.num) > 3 * c.vix_change.den
      [] i = 2 -> d.vx1 < d.vx2
      [] i = 3 -> c.spread < -4
      [] i = 4 -> c.spread_trending_down
      [] i = 5 -> c.vvix_change.num < 0
      [] i = 6 -> c.spx_change.num > 0 /\ c.vix_change.num < 0
      [] i = 7 -> d.vx1 < d.vx2 /\ d.vx2 * 100 < d.vx3c

RECURSIVE WeightOfHeld(_, _, _)
WeightOfHeld(n, d, c) ==
    IF n = 0 THEN 0
    ELSE WeightOfHeld(n - 1, d, c) + (IF ScoreCondition(n, d, c) THEN ScoreWeights[n] ELSE 0)

\* C9: probability_score returns the sum of the weights of the conditions
\* that hold, an integer in 0..100.
C9_ScoreIsSumOfWeights ==
    fn_call.fn = "probability_score" =>
        /\ fn_ret.score = WeightOfHeld(7, fn_call.data, fn_call.changes)
        /\ fn_ret.score \in 0..100

\* all seven conditions hold, and none
C9_Witness ==
    /\ fn_call.fn = "probability_score"
    /\ fn_ret.score = 100
    /\ \A i \in 1..7 : ScoreCondition(i, fn_call.data, fn_call.changes)

\* the place of a regime in the order PANIC .. LATE_PHASE_1
RegimeRank(r) == CHOOSE i \in 1..5 : Regimes[i] = r

\* C10: classify maps score < 30 to PANIC, 30..49 to TRANSITION, 50..69 to
\* EARLY_PHASE_1, 70..84 to CONFIRMED_PHASE_1 and 85 or more to
\* LATE_PHASE_1, and no lower score maps to a later regime.
C10_ClassifyBands ==
    fn_call.fn = "classify" =>
        LET s == fn_call.score
            r == fn_ret.regime
        IN  /\ (s < 30) = (r = "PANIC")
            /\ (30 <= s /\ s < 50) = (r = "TRANSITION")
            /\ (50 <= s /\ s < 70) = (r = "EARLY_PHASE_1")
            /\ (70 <= s /\ s < 85) = (r = "CONFIRMED_PHASE_1")
            /\ (85 <= s) = (r = "LATE_PHASE_1")
            /\ \A t \in 0..s : RegimeRank(classify(t)) <= RegimeRank(r)

\* the lower edge of CONFIRMED_PHASE_1
C10_Witness ==
    fn_call.fn = "classify" /\ fn_call.score = 70 /\ fn_ret.regime = "CONFIRMED_PHASE_1"

-----------------------------------------------------------------------------
\* the step of the weekly block called send_telegram with a dashboard
DashboardEmitted ==
    /\ Len(outbox') = Len(outbox) + 1
    /\ outbox'[Len(outbox')].kind = "dashboard"

\* C11: the dashboard gate is measured against the time of the last
\* dashboard actually sent (at first, the start minus one day): where a
\* scored tick comes to the weekly block a dashboard is emitted iff more
\* than 24 hours have passed since that time and the weekly buffer holds
\* at least 2 records; with fewer than 2 records nothing is emitted.
C11_DashboardGate ==
    [][pc = "weekly" =>
         /\ DashboardEmitted <=> (since_sent > DAY /\ Len(history["vix_week"]) >= 2)
         /\ Len(history["vix_week"]) < 2 => outbox' = outbox]_vars

\* C11, its last part: no two dashboards of one run are emitted less than
\* 24 hours apart
C11_DashboardsADayApart ==
    [][pc = "weekly" /\ DashboardEmitted => since_sent > DAY]_vars

-----------------------------------------------------------------------------
\* load_history has returned or raised, and nothing else has run yet
JustLoaded == pc # "load" /\ ticks = 0 /\ outbox = << >>

\* C12: on any failure of load_history at startup (file missing, not
\* readable, malformed, or holding an unknown buffer name) run() goes on
\* to the start message and the loop with the default, empty buffers.
C12_LoadFailureProceeds ==
    (JustLoaded /\ disk.kind \in LoadFailures) =>
        (pc = "start" /\ history = InitHistory)

-----------------------------------------------------------------------------
\* compute_changes has returned in the tick in progress, and previous is
\* still what the last tick that reached lines 323-327 stored
Computed ==
    /\ pc \in {"spike", "early", "alert", "heatmap", "weekly", "except", "crashed"}
    /\ changes # NoChanges

\* r is (cur - prev) / prev * 100
IsPercentChange(r, cur, prev) == r.num * prev = (cur - prev) * 100 * r.den

\* C13: with no previous snapshot stored, compute_changes returns the three
\* changes exactly 0 and spread_trending_down false; on every later tick
\* spread_trending_down holds iff the current spread vx1 - vx2 is strictly
\* below the stored spread, and each percent change is
\* (current - previous) / previous * 100 against the stored snapshot.
C13_ChangesAgainstStored ==
    Computed =>
        IF previous = InitPrevious
        THEN /\ changes.vix_change = Zero
             /\ changes.vvix_change = Zero
             /\ changes.spx_change = Zero
             /\ ~changes.spread_trending_down
        ELSE /\ changes.spread_trending_down <=> (data.vx1 - data.vx2 < previous.spread)
             /\ IsPercentChange(changes.vix_change, data.vix, previous.vix)
             /\ IsPercentChange(changes.vvix_change, data.vvix, previous.vvix)
             /\ IsPercentChange(changes.spx_change, data.spx, previous.spx)

-----------------------------------------------------------------------------
\* sign_adjusted_value * 5 + 50
LinearPart(adj) == Rat(5 * adj.num + 50 * adj.den, adj.den)

\* t is r cut to an integer toward zero
IsTruncationOf(t, r) ==
    IF r.num >= 0
    THEN t * r.den <= r.num /\ r.num < (t + 1) * r.den
    ELSE (t - 1) * r.den < r.num /\ r.num <= t * r.den

\* t is an integer nearest to r (either one at a tie)
IsNearestTo(t, r) == 2 * Abs(t * r.den - r.num) <= r.den

Clamp(t) == IF t < 0 THEN 0 ELSE IF t > 100 THEN 100 ELSE t

Integral == -200..300

\* the four sign-adjusted values: the negated change for vix and vvix, the
\* negated spread (in points), the raw change for spx
SignAdjusted(c) ==
    [vix |-> RatNeg(c.vix_change), vvix |-> RatNeg(c.vvix_change),
     spread |-> Rat(0 - c.spread, 8), spx |-> c.spx_change]

Metrics == {"vix", "vvix", "spread", "spx"}

\* C14 as amended: each strength is an integer in [0,100] and equals
\* clamp(trunc(sign_adjusted_value * 5 + 50), 0, 100), the linear part
\* being cut toward zero (int()) before clamping.
C14_StrengthTruncates ==
    fn_call.fn = "strengths" =>
        \A m \in Metrics :
            /\ fn_ret.strengths[m] \in 0..100
            /\ \E t \in Integral :
                 /\ IsTruncationOf(t, LinearPart(SignAdjusted(fn_call.changes)[m]))
                 /\ fn_ret.strengths[m] = Clamp(t)

\* C14: each strength is an integer in [0,100] and equals
\* clamp(round(sign_adjusted_value * 5 + 50), 0, 100), the linear part
\* being rounded to the nearest integer before clamping.
C14_StrengthRounds ==
    fn_call.fn = "strengths" =>
        \A m \in Metrics :
            /\ fn_ret.strengths[m] \in 0..100
            /\ \E t \in Integral :
                 /\ IsNearestTo(t, LinearPart(SignAdjusted(fn_call.changes)[m]))
                 /\ fn_ret.strengths[m] = Clamp(t)

\* a vix change of -0.375 percent: 51.875 becomes 51; and both clamps
C14_Witness ==
    /\ fn_call.fn = "strengths"
    /\ fn_call.changes.vix_change = Rat(-3, 8)
    /\ fn_ret.strengths.vix = 51
    /\ fn_ret.strengths.spread = 0
    /\ fn_ret.strengths.spx = 100

-----------------------------------------------------------------------------
\* the tick in progress has come to its end
TickOver == ticks >= 1 /\ pc \in {"sleep", "crashed"}

\* C15: the rolling buffers change only on ticks where a phase alert fires:
\* a tick that has appended to them is a tick whose phase alert fires, and
\* on every other tick (no phase alert, spike-filtered, early-warning only)
\* they are left as they were.
C15_BuffersChangeOnlyOnAlert ==
    TickOver => (("appended" \in steps) <=> Fired("phase"))

\* s with one element appended, the oldest dropped from a full buffer
OneAppend(s, t, n) ==
    /\ Len(t) = IF Len(s) < n THEN Len(s) + 1 ELSE n
    /\ \A i \in 1..(Len(t) - 1) : t[i] = s[i + Len(s) + 1 - Len(t)]

Last(s) == s[Len(s)]

\* C15, the shape of the appends: a step changes the buffers only in the
\* alert block of run(), where each of the four smoothing, four trend and
\* six weekly buffers receives exactly one append: the same instantaneous
\* strength per metric, the date and the regime.
C15_OneAppendPerBuffer ==
    [][(history' # history /\ pc # "load") =>
         /\ pc = "alert"
         /\ "appended" \in steps' /\ "appended" \notin steps
         /\ \A k \in Keys : OneAppend(history[k], history'[k], MaxLenOf(k))
         /\ \A m \in Metrics :
              \E v \in 0..100 :
                /\ Last(history'[m \o "_strength"]) = v
                /\ Last(history'[m \o "_trend"]) = v
                /\ Last(history'[m \o "_week"]) = v
         /\ Last(history'["regime_week"]) = regime
         /\ Last(history'["date_week"]) = Today]_vars

-----------------------------------------------------------------------------
\* between two ticks: before the fetch, or in the sleep that ends a tick
TickBoundary == pc \in {"fetch", "sleep"}

\* C16: at every tick boundary the persisted history equals the in-memory
\* contents of all rolling buffers, so that a process killed there and
\* started again gets from load_history every buffer with exactly the
\* elements and order it had before the kill.
C16_RestartRestoresBuffers ==
    TickBoundary =>
        /\ ~load_history_raises(disk)
        /\ load_history(disk, InitHistory) = history

-----------------------------------------------------------------------------
\* a snapshot as the source produces it: every price positive
AllPositive(d) ==
    d # NoData /\ d.vix > 0 /\ d.vvix > 0 /\ d.spx > 0 /\ d.vx1 > 0 /\ d.vx2 > 0

\* the tick in progress has fetched its snapshot
Fetched == data # NoData

\* C17: for every snapshot with all prices positive and vx3 = vx2 * 1.01,
\* vx1 > vx2 > vx3 is false, so the fake-spike branch is not taken and a
\* tick that fetched the snapshot is a scored tick (a zero stored from an
\* earlier, non-positive snapshot apart, on which compute_changes raises);
\* the scoring conditions vx1 < vx2 and vx1 < vx2 < vx3 hold or fail
\* together.
C17_NoSpikeOnPositivePrices ==
    (Fetched /\ AllPositive(data)) =>
        /\ data.vx3c = data.vx2 * 101
        /\ ~(data.vx1 > data.vx2 /\ data.vx2 * 100 > data.vx3c)
        /\ pc # "spike" /\ ~Fired("spike")
        /\ Scored \/ previous.vvix = 0 \/ previous.spx = 0
        /\ (data.vx1 < data.vx2) <=> (data.vx1 < data.vx2 /\ data.vx2 * 100 < data.vx3c)

\* vix and vvix both rise and vx1 is above vx2, all prices positive: the
\* first three conjuncts of fake_spike hold and the tick is scored
C17_Witness ==
    /\ Fetched /\ AllPositive(data)
    /\ RatPos(changes.vix_change) /\ RatPos(changes.vvix_change)
    /\ data.vx1 > data.vx2
    /\ Scored /\ pc = "sleep"

-----------------------------------------------------------------------------
SameLength(ks) == \A j, k \in ks : Len(history[j]) = Len(history[k])

-----------------------------------------------------------------------------
\* load_history has just returned from a file whose list for k is longer
\* than the capacity of k
LoadedOverlong(k) ==
    /\ JustLoaded /\ pc = "start"
    /\ disk.kind = "ok"
    /\ Len(disk.data[k]) > MaxLenOf(k)

\* C19: a stored list longer than the buffer's capacity is loaded as it is,
\* with no truncation: the buffer's length exceeds its capacity after the
\* load.
C19_LoadsOverlongAsIs ==
    \A k \in Keys :
        LoadedOverlong(k) =>
            /\ history[k] = disk.data[k]
            /\ Len(history[k]) > MaxLenOf(k)

\* C19 as amended: a stored list longer than the buffer's capacity is cut
\* at the load to its last capacity-many elements, in their order, so the
\* buffer's length equals its capacity after the load.
C19_LoadKeepsNewest ==
    \A k \in Keys :
        LoadedOverlong(k) =>
            /\ Len(history[k]) = MaxLenOf(k)
            /\ \A i \in 1..MaxLenOf(k) :
                 history[k][i] = disk.data[k][Len(disk.data[k]) - MaxLenOf(k) + i]

\* eight stored readings, of which the smoothing buffer keeps the last three
C19_Witness ==
    /\ LoadedOverlong("vix_strength")
    /\ Len(disk.data["vix_strength"]) = MaxFileLen
    /\ history["vix_strength"] =
         <<10 * (MaxFileLen - 2), 10 * (MaxFileLen - 1), 10 * MaxFileLen>>

-----------------------------------------------------------------------------
\* the snapshot stored by the last completed tick holds a zero
PreviousHasZero == previous.vix = 0 \/ previous.vvix = 0 \/ previous.spx = 0

\* the tick in progress has fetched, and has not yet stored its snapshot
FetchedAgainstStored ==
    Fetched /\ pc \in {"spike", "early", "alert", "heatmap", "weekly", "except", "crashed"}

\* C20: when the stored vix, vvix or spx is zero, compute_changes returns
\* no changes computed from it: the tick ends in an error reported by the
\* loop, and the zero is never silently treated as no previous snapshot.
C20_ZeroPreviousIsAnError ==
    (FetchedAgainstStored /\ PreviousHasZero) =>
        /\ changes = NoChanges
        /\ ~Scored
        /\ pc \in {"except", "crashed"} \/ Fired("error")

\* C20, the part the code keeps: a stored zero vvix or spx next to a
\* nonzero vix makes compute_changes raise, and the loop reports it
C20_ZeroDivisionReported ==
    (FetchedAgainstStored /\ previous.vix # 0 /\ (previous.vvix = 0 \/ previous.spx = 0)) =>
        /\ changes = NoChanges
        /\ ~Scored
        /\ pc = "except" \/ Fired("error")

\* a tick stopped by the zero vvix stored before it, and reported
C20_ZeroDivisionSeen ==
    FetchedAgainstStored /\ previous.vvix = 0 /\ Fired("error")

====
